---- MODULE Spec2Model ----
(***************************************************************************)
(* The real-time session and broadcast engine of the support-chat relay   *)
(* (src/src/socket/socket.ts and its Groq variant src/unnamed/part_000)    *)
(* together with the persistence service it calls                          *)
(* (src/src/services/chatService.ts) and the two tables behind it          *)
(* (src/src/models/ChatSession.ts, src/unnamed/part_003).                  *)
(*                                                                         *)
(* One action is one run of a handler between two suspension points: a     *)
(* handler runs from the event (or from the completion of the operation it *)
(* awaits) up to its next await.  The awaited database operation takes     *)
(* effect at the beginning of the action that resumes from it.  Handlers   *)
(* of different connections interleave at these points, as they do on the  *)
(* Node event loop.                                                        *)
(***************************************************************************)
EXTENDS Integers, Sequences, FiniteSets, TLC

\* ------------------------------------------------------------------ bounds

\* Requests accepted in one run: the inbound events whose handler awaits the
\* persistence service, and the PATCH requests of the AI toggle.  (The events
\* handled without an await change no table and are not counted.)
MaxRequests == 3

\* Rows the messages table can hold in one run.
MaxMessages == 4

\* The connections (sockets) of one run: the sockets of two customer pages
\* and of one admin dashboard.  Each is connected in the initial state and
\* may disconnect once.  A customer page sends the customer events, the
\* dashboard the admin events.
Users == {"u1", "u2"}
Admins == {"a1"}
Conns == Users \cup Admins

\* The session identifiers a client can supply and uuidv4 can mint.
SessionIds == {"s1", "s2"}

\* ------------------------------------------------- JavaScript values

\* A field that is absent from a payload, and the null stored in a column.
UNDEF == "undefined"
NULL == "null"

\* !v for a string-typed value.
Falsy(v) == v \in {UNDEF, NULL, ""}

\* a || b
Or(a, b) == IF Falsy(a) THEN b ELSE a

\* Message bodies are sequences of one-character strings, so that trim() is
\* computed.  An absent body is the one-element sequence below, which no
\* string equals.
Missing == <<"undefined">>

WhiteSpace == {" ", "\t", "\n"}

RECURSIVE TrimStart(_)
TrimStart(s) ==
  IF s # <<>> /\ Head(s) \in WhiteSpace THEN TrimStart(Tail(s)) ELSE s

RECURSIVE TrimEnd(_)
TrimEnd(s) ==
  IF s # <<>> /\ s[Len(s)] \in WhiteSpace
    THEN TrimEnd(SubSeq(s, 1, Len(s) - 1))
    ELSE s

\* String.prototype.trim
Trim(s) == TrimEnd(TrimStart(s))

\* !body for a body
FalsyBody(b) == b = Missing \/ b = <<>>

\* ------------------------------------------------------------------ state

VARIABLES
  chat_sessions,  \* the chat_sessions table: a sequence of rows, id = index
  messages,       \* the messages table: a sequence of rows, id = index
  rooms,          \* Socket.IO adapter: the set of rooms of each socket
  h,              \* per connection: the handler in flight, or the one that
                  \* returned in the last step
  trace,          \* per connection: what that handler did, in order
  closedIn,       \* per connection: the rooms it was in when it closed,
                  \* and those of them in which another socket remained
  config,         \* the deployed variant and whether its API key is set
  nRequests       \* requests accepted so far

vars == <<chat_sessions, messages, rooms, h, trace, closedIn, config, nRequests>>

\* The room every socket joins on connection (its own id), the room of a
\* session (`session:${sessionId}`) and the admin room.
SocketRoom(c) == <<"socket", c>>
SessionRoom(sid) == <<"session", sid>>
AdminRoom == <<"admin", "">>

\* room.startsWith('session:')
IsSessionRoom(room) == room[1] = "session"

\* room.replace('session:', '')
SessionOfRoom(room) == room[2]

\* io.to(room) / io.in(room): the sockets in the room now.
Members(room) == {c \in Conns : room \in rooms[c]}

\* socket.connected
Connected(c) == SocketRoom(c) \in rooms[c]

\* An emit, recorded with the sockets it is delivered to at call time.
Sent(ev, room, data) ==
  [ev |-> ev, room |-> room, to |-> Members(room), data |-> data]

\* A row written to the messages table, recorded in the handler's trace.
Inserted(row) ==
  [ev |-> "db:insert", room |-> <<"db", "">>, to |-> {}, data |-> row]

\* socket.emit('error', { message })
ErrorTo(c, text) == Sent("error", SocketRoom(c), [message |-> text])

NoHandler == [ev |-> "none", pc |-> "done", sid |-> UNDEF]

\* An event without payload.
NoPayload == [sessionId |-> UNDEF]

\* A local variable that holds no row yet.
NoRow == [id |-> NULL]

\* No handler has just returned.
Quiet == \A c \in Conns : h[c] = NoHandler \/ h[c].pc # "done"

\* A connection that accepts an event only when no handler is in flight on any
\* connection: a server that waits for each handler before it reads the next
\* event.
CanStartSerial(c) ==
  /\ Quiet
  /\ Connected(c)
  /\ \A d \in Conns : h[d].pc = "done"

\* A connection accepts its next event when it is connected and its
\* previous handler has returned.
CanStart(c) ==
  /\ Quiet
  /\ Connected(c)
  /\ h[c].pc = "done"

\* The handler of connection c and its trace after a step of it.
Run(c, handler, effects) ==
  /\ h' = [h EXCEPT ![c] = handler]
  /\ trace' = [trace EXCEPT ![c] = effects]

\* An event arrives at c: its handler runs to its first await, or returns.
\* An event whose handler awaits the persistence service is a request.
Begin(c, handler, effects) ==
  /\ Run(c, handler, effects)
  /\ IF handler.pc = "done"
       THEN UNCHANGED nRequests
       ELSE /\ nRequests < MaxRequests
            /\ nRequests' = nRequests + 1

\* A handler in flight resumes from the operation `at` it awaits.
Resumes(c, at) ==
  /\ Quiet
  /\ h[c].pc = at

\* The handler returns.
Finish(c, handler, effects) ==
  Run(c, [handler EXCEPT !.pc = "done"], trace[c] \o effects)

\* The handler awaits the operation `at`.
Suspend(c, handler, at, effects) ==
  Run(c, [handler EXCEPT !.pc = at], trace[c] \o effects)

\* The handler that has returned is gone: the program keeps nothing of it.
Forget ==
  /\ ~Quiet
  /\ h' = [c \in Conns |-> IF h[c].pc = "done" THEN NoHandler ELSE h[c]]
  /\ trace' = [c \in Conns |-> IF h[c].pc = "done" THEN <<>> ELSE trace[c]]
  /\ UNCHANGED <<chat_sessions, messages, rooms, closedIn, config, nRequests>>

\* ------------------------------------------------ chat_sessions table

\* The ids of the rows WHERE session_id = sid.
SessionRows(sid) ==
  {i \in 1..Len(chat_sessions) : chat_sessions[i].sessionId = sid}

\* ChatSession.findOne({ where: { sessionId } }): a row id, or 0 for null.
FindOneSession(sid) ==
  IF SessionRows(sid) = {}
    THEN 0
    ELSE CHOOSE i \in SessionRows(sid) : \A j \in SessionRows(sid) : i <= j

\* A session_id column without its unique index: every insert is accepted.
NoUniqueIndex(sid) == TRUE

\* The unique index on session_id: an insert of sid is accepted.
UniqueSessionId(sid) == SessionRows(sid) = {}

\* The row ChatSession.create writes: the given defaults, ai_enabled false.
NewSessionRow(defaults) ==
  [id |-> Len(chat_sessions) + 1,
   sessionId |-> defaults.sessionId,
   userIp |-> defaults.userIp,
   userAgent |-> defaults.userAgent,
   status |-> defaults.status,
   aiEnabled |-> FALSE]

\* An id that a session, a handler in flight or a room uses.
InUse(sid) ==
  \/ SessionRows(sid) # {}
  \/ \E c \in Conns : SessionRoom(sid) \in rooms[c]
  \/ \E c \in Conns : h[c].pc # "done" /\ h[c].sid = sid

\* An id generator that may return an id already issued.
AnySessionId == SessionIds

\* uuidv4(): an id not in use.
uuidv4 == {sid \in SessionIds : ~InUse(sid)}

\* ------------------------------------------------------- user:connect

\* The payloads of user:connect.
ConnectData ==
  {[sessionId |-> d[1], userIp |-> d[2], userAgent |-> d[3]] :
     d \in {<<UNDEF, UNDEF, UNDEF>>,
            <<"s1", UNDEF, UNDEF>>,
            <<"s1", "10.0.0.7", "Firefox">>,
            <<"s2", UNDEF, UNDEF>>}}

\* socket.on('user:connect') passing status 'inactive' to
\* createOrUpdateSession.
UserConnectInactive(c, data) ==
  /\ c \in Users
  /\ CanStart(c)
  /\ \E sessionId \in (IF Falsy(data.sessionId) THEN uuidv4 ELSE {data.sessionId}) :
       Begin(c, [ev |-> "user:connect", pc |-> "findOrCreate:find",
                 in |-> data, sid |-> sessionId,
                 arg |-> [sessionId |-> sessionId,
                          userIp |-> Or(data.userIp, "unknown"),
                          userAgent |-> Or(data.userAgent, "unknown"),
                          status |-> "inactive"],
                 session |-> NoRow],
             <<>>)
  /\ UNCHANGED <<chat_sessions, messages, rooms, closedIn, config>>

\* socket.on('user:connect'), up to the await of createOrUpdateSession, which
\* itself runs up to the await of ChatSession.findOrCreate.
UserConnect(c, data) ==
  /\ c \in Users
  /\ CanStart(c)
  /\ \E sessionId \in (IF Falsy(data.sessionId) THEN uuidv4 ELSE {data.sessionId}) :
       Begin(c, [ev |-> "user:connect", pc |-> "findOrCreate:find",
                 in |-> data, sid |-> sessionId,
                 arg |-> [sessionId |-> sessionId,
                          userIp |-> Or(data.userIp, "unknown"),
                          userAgent |-> Or(data.userAgent, "unknown"),
                          status |-> "active"],
                 session |-> NoRow],
             <<>>)
  /\ UNCHANGED <<chat_sessions, messages, rooms, closedIn, config>>

\* The catch of socket.on('user:connect') after an acknowledgement sent
\* before createOrUpdateSession has returned.
ConnectFailedStillAcks(c) ==
  Finish(c, h[c],
         <<Sent("user:connected", SocketRoom(c), [sessionId |-> h[c].sid]),
           ErrorTo(c, "Failed to establish connection")>>)

\* The catch of socket.on('user:connect').
ConnectFailed(c) ==
  Finish(c, h[c], <<ErrorTo(c, "Failed to establish connection")>>)

\* A join that is not idempotent: joining a room the socket is in takes the
\* socket out of it.
ConnectJoinToggle(c) ==
  LET room == SessionRoom(h[c].sid)
      joined == [rooms EXCEPT ![c] = IF room \in rooms[c]
                                      THEN rooms[c] \ {room}
                                      ELSE rooms[c] \cup {room}]
  IN /\ rooms' = joined
     /\ Finish(c, h[c],
               <<Sent("user:connected", SocketRoom(c), [sessionId |-> h[c].sid])>>)

\* After createOrUpdateSession has returned: join the room, acknowledge.
ConnectJoin(c) ==
  LET room == SessionRoom(h[c].sid)
      joined == [rooms EXCEPT ![c] = rooms[c] \cup {room}]
  IN /\ rooms' = joined
     /\ Finish(c, h[c],
               <<Sent("user:connected", SocketRoom(c), [sessionId |-> h[c].sid])>>)

\* ChatSession.findOrCreate, its SELECT.  A row found means created = false,
\* and createOrUpdateSession goes on to session.update.
FindOrCreateFind(c, ok) ==
  /\ Resumes(c, "findOrCreate:find")
  /\ IF ~ok
       THEN ConnectFailed(c)
       ELSE LET found == FindOneSession(h[c].arg.sessionId)
            IN IF found # 0
                 THEN Suspend(c, [h[c] EXCEPT !.session = chat_sessions[found]],
                              "session.update", <<>>)
                 ELSE Suspend(c, h[c], "findOrCreate:create", <<>>)
  /\ UNCHANGED <<chat_sessions, messages, rooms, closedIn, config, nRequests>>

\* ChatSession.findOrCreate, its INSERT of the defaults.  A violation of the
\* unique index makes findOrCreate return the existing row, created = false.
FindOrCreateCreate(c, ok) ==
  /\ Resumes(c, "findOrCreate:create")
  /\ IF ~ok
       THEN /\ ConnectFailed(c)
            /\ UNCHANGED <<chat_sessions, rooms>>
       ELSE IF UniqueSessionId(h[c].arg.sessionId)
         THEN /\ chat_sessions' =
                   Append(chat_sessions,
                          NewSessionRow([sessionId |-> h[c].arg.sessionId,
                                         userIp |-> Or(h[c].arg.userIp, NULL),
                                         userAgent |-> Or(h[c].arg.userAgent, NULL),
                                         status |-> Or(h[c].arg.status, "active")]))
              /\ ConnectJoin(c)
         ELSE /\ Suspend(c, [h[c] EXCEPT !.session =
                                        chat_sessions[FindOneSession(h[c].arg.sessionId)]],
                         "session.update", <<>>)
              /\ UNCHANGED <<chat_sessions, rooms>>
  /\ UNCHANGED <<messages, closedIn, config, nRequests>>

\* createOrUpdateSession with an update that has no WHERE clause: every row
\* of the table is written.
SessionUpdateEveryRow(c, ok) ==
  /\ Resumes(c, "session.update")
  /\ IF ~ok
       THEN /\ ConnectFailed(c)
            /\ UNCHANGED <<chat_sessions, rooms>>
       ELSE /\ chat_sessions' =
                 [i \in DOMAIN chat_sessions |->
                    [chat_sessions[i] EXCEPT
                       !.status = Or(h[c].arg.status, "active"),
                       !.userIp = Or(h[c].arg.userIp, h[c].session.userIp),
                       !.userAgent = Or(h[c].arg.userAgent, h[c].session.userAgent)]]
            /\ ConnectJoin(c)
  /\ UNCHANGED <<messages, closedIn, config, nRequests>>

\* createOrUpdateSession whose update also writes the default of ai_enabled.
SessionUpdateResetsAi(c, ok) ==
  /\ Resumes(c, "session.update")
  /\ IF ~ok
       THEN /\ ConnectFailed(c)
            /\ UNCHANGED <<chat_sessions, rooms>>
       ELSE LET session == h[c].session
            IN /\ chat_sessions' =
                    [chat_sessions EXCEPT ![session.id] =
                       [@ EXCEPT !.status = Or(h[c].arg.status, "active"),
                                 !.userIp = Or(h[c].arg.userIp, session.userIp),
                                 !.userAgent = Or(h[c].arg.userAgent, session.userAgent),
                                 !.aiEnabled = FALSE]]
               /\ ConnectJoin(c)
  /\ UNCHANGED <<messages, closedIn, config, nRequests>>

\* session.update({ status, userIp, userAgent }) of createOrUpdateSession on
\* the row found, then the rest of socket.on('user:connect').
SessionUpdate(c, ok) ==
  /\ Resumes(c, "session.update")
  /\ IF ~ok
       THEN /\ ConnectFailed(c)
            /\ UNCHANGED <<chat_sessions, rooms>>
       ELSE LET session == h[c].session
            IN /\ chat_sessions' =
                    [chat_sessions EXCEPT ![session.id] =
                       [@ EXCEPT !.status = Or(h[c].arg.status, "active"),
                                 !.userIp = Or(h[c].arg.userIp, session.userIp),
                                 !.userAgent = Or(h[c].arg.userAgent, session.userAgent)]]
               /\ ConnectJoin(c)
  /\ UNCHANGED <<messages, closedIn, config, nRequests>>

\* ---------------------------------------------------------- admin:join

\* socket.on('admin:join')
AdminJoin(c) ==
  /\ c \in Admins
  /\ CanStart(c)
  /\ rooms' = [rooms EXCEPT ![c] = rooms[c] \cup {AdminRoom}]
  /\ Begin(c, [ev |-> "admin:join", pc |-> "done", sid |-> UNDEF], <<>>)
  /\ UNCHANGED <<chat_sessions, messages, closedIn, config>>

\* ------------------------------------------------------ messages table

\* The foreign key of messages.session_id: the session row exists.
SessionExists(sid) == SessionRows(sid) # {}

\* The row Message.create writes for the argument of createMessage.
NewMessageRow(messageData) ==
  [id |-> Len(messages) + 1,
   sessionId |-> messageData.sessionId,
   message |-> messageData.message,
   sender |-> messageData.sender,
   senderType |-> messageData.senderType,
   isAi |-> (messageData.isAi = TRUE),
   attachmentUrl |-> Or(messageData.attachmentUrl, NULL),
   attachmentType |-> Or(messageData.attachmentType, NULL)]

\* Message.findAll of the session with order [['createdAt', 'DESC']].
getMessagesBySessionDesc(sid) ==
  LET found == SelectSeq(messages, LAMBDA row : row.sessionId = sid)
  IN [i \in 1..Len(found) |-> found[Len(found) + 1 - i]]

\* getMessagesBySession: the rows of the session, by creation time.
getMessagesBySession(sid) ==
  SelectSeq(messages, LAMBDA row : row.sessionId = sid)

\* -------------------------------------------- message:user, message:admin

\* The payloads of message:user and message:admin: with both attachment
\* fields, with none, and with attachmentUrl alone.
MessagePayloads ==
  {[sessionId |-> d[1], message |-> d[2], sender |-> d[3],
    attachmentUrl |-> d[4], attachmentType |-> d[5]] :
     d \in {<<"s1", <<" ", "h", "i", "\n">>, UNDEF, UNDEF, UNDEF>>,
            <<"s1", <<"h", "i">>, "Alice", "/uploads/f1", "image/png">>,
            <<"s2", <<"h", "i">>, "Alice", "/uploads/f2", UNDEF>>,
            <<UNDEF, <<"h", "i">>, "Alice", UNDEF, UNDEF>>,
            <<"s1", <<" ", "\t">>, "Alice", UNDEF, UNDEF>>,
            <<"s1", <<>>, UNDEF, UNDEF, UNDEF>>,
            <<"s2", Missing, "Alice", UNDEF, UNDEF>>}}

\* The validation without the test of the trimmed body.
InvalidUntrimmed(data) ==
  \/ Falsy(data.sessionId)
  \/ FalsyBody(data.message)

\* !sessionId || !message || !message.trim()
Invalid(data) ==
  \/ Falsy(data.sessionId)
  \/ FalsyBody(data.message)
  \/ FalsyBody(Trim(data.message))

DefaultSender(ev) == IF ev = "message:user" THEN "User" ELSE "Admin"

SenderTypeOf(ev) == IF ev = "message:user" THEN "user" ELSE "admin"

\* socket.on('message:user') and socket.on('message:admin'), up to the
\* return of the validation or the await of Message.create in createMessage.
MessageEvent(c, ev, data) ==
  /\ c \in (IF ev = "message:user" THEN Users ELSE Admins)
  /\ CanStart(c)
  /\ Begin(c,
           [ev |-> ev,
            pc |-> IF Invalid(data) THEN "done" ELSE "Message.create",
            in |-> data,
            sid |-> data.sessionId,
            stage |-> "human",
            arg |-> IF Invalid(data)
                      THEN NoRow
                      ELSE [sessionId |-> data.sessionId,
                            message |-> Trim(data.message),
                            sender |-> Or(data.sender, DefaultSender(ev)),
                            senderType |-> SenderTypeOf(ev),
                            isAi |-> FALSE,
                            attachmentUrl |-> data.attachmentUrl,
                            attachmentType |-> data.attachmentType],
            message |-> NoRow,
            saved |-> NoRow,
            completion |-> <<>>],
           IF Invalid(data) THEN <<ErrorTo(c, "Invalid message data")>> ELSE <<>>)
  /\ UNCHANGED <<chat_sessions, messages, rooms, closedIn, config>>

\* typing:admin:stop emitted with io.emit: to every connected socket.
TypingAdminStopToAll(sid) ==
  [ev |-> "typing:admin:stop", room |-> SessionRoom(sid),
   to |-> {c \in Conns : Connected(c)}, data |-> NoPayload]

\* io.to(`session:${sessionId}`).emit('typing:admin:stop')
TypingAdminStop(sid) == Sent("typing:admin:stop", SessionRoom(sid), NoPayload)

\* createMessage has thrown: the catch of the handler for a human message,
\* the catch around the AI reply for an automated one.
MessageFailed(c) ==
  IF h[c].stage = "human"
    THEN Finish(c, h[c], <<ErrorTo(c, "Failed to send message")>>)
    ELSE Finish(c, h[c], <<TypingAdminStop(h[c].sid)>>)

\* createMessage writing its row over the last row of the table.
MessageCreateOverwrite(c, ok) ==
  /\ Resumes(c, "Message.create")
  /\ IF ok /\ SessionExists(h[c].arg.sessionId)
       THEN /\ Len(messages) < MaxMessages
            /\ messages' =
                 IF messages = <<>>
                   THEN <<NewMessageRow(h[c].arg)>>
                   ELSE [messages EXCEPT ![Len(messages)] = NewMessageRow(h[c].arg)]
            /\ Suspend(c, [h[c] EXCEPT !.message = NewMessageRow(h[c].arg)],
                       "ChatSession.update", <<Inserted(NewMessageRow(h[c].arg))>>)
       ELSE /\ MessageFailed(c)
            /\ UNCHANGED messages
  /\ UNCHANGED <<chat_sessions, rooms, closedIn, config, nRequests>>

\* createMessage whose Message.create does not throw on failure: the handler
\* goes on with a row that was not written.
MessageCreateUnchecked(c, ok) ==
  /\ Resumes(c, "Message.create")
  /\ Len(messages) < MaxMessages
  /\ IF ok /\ SessionExists(h[c].arg.sessionId)
       THEN messages' = Append(messages, NewMessageRow(h[c].arg))
       ELSE UNCHANGED messages
  /\ Suspend(c, [h[c] EXCEPT !.message = NewMessageRow(h[c].arg)],
             "ChatSession.update", <<Inserted(NewMessageRow(h[c].arg))>>)
  /\ UNCHANGED <<chat_sessions, rooms, closedIn, config, nRequests>>

\* createMessage, its Message.create.
MessageCreate(c, ok) ==
  /\ Resumes(c, "Message.create")
  /\ IF ok /\ SessionExists(h[c].arg.sessionId)
       THEN /\ Len(messages) < MaxMessages
            /\ messages' = Append(messages, NewMessageRow(h[c].arg))
            /\ Suspend(c, [h[c] EXCEPT !.message = NewMessageRow(h[c].arg)],
                       "ChatSession.update", <<Inserted(NewMessageRow(h[c].arg))>>)
       ELSE /\ MessageFailed(c)
            /\ UNCHANGED messages
  /\ UNCHANGED <<chat_sessions, rooms, closedIn, config, nRequests>>

\* The payload built from the saved message of a human author.
MessageDataOf(sid, senderType, saved) ==
  [sessionId |-> sid,
   message |-> saved.message,
   sender |-> saved.sender,
   senderType |-> senderType,
   isAi |-> saved.isAi,
   attachmentUrl |-> saved.attachmentUrl,
   attachmentType |-> saved.attachmentType]

\* The payload built from the saved automated reply.
AiMessageDataOf(sid, aiSaved) ==
  [sessionId |-> sid,
   message |-> aiSaved.message,
   sender |-> "AI",
   senderType |-> "admin",
   isAi |-> TRUE]

\* socket.on('message:user') after createMessage, without the
\* acknowledgement to the sender.
UserMessageSavedNoAck(c) ==
  LET messageData == MessageDataOf(h[c].sid, "user", h[c].message)
  IN Suspend(c, [h[c] EXCEPT !.saved = h[c].message], "getSession",
             <<Sent("message:new", AdminRoom, messageData)>>)

\* The handler of c with the message createMessage returns.
Returned(c) == [h[c] EXCEPT !.saved = h[c].message]

\* socket.on('message:user') after createMessage, the echo built from the
\* payload of the event and not from the saved message.
UserMessageSavedEchoRaw(c) ==
  LET messageData == MessageDataOf(h[c].sid, "user", h[c].message)
  IN Suspend(c, Returned(c), "getSession",
             <<Sent("message:new", AdminRoom, messageData),
               Sent("message:sent", SocketRoom(c),
                    [messageData EXCEPT !.message = h[c].in.message])>>)

\* socket.on('message:user') after createMessage: broadcast to the admins,
\* acknowledge, then call getSession for the AI reply.
UserMessageSaved(c) ==
  LET messageData == MessageDataOf(h[c].sid, "user", h[c].message)
  IN Suspend(c, Returned(c), "getSession",
             <<Sent("message:new", AdminRoom, messageData),
               Sent("message:sent", SocketRoom(c), messageData)>>)

\* socket.on('message:admin') after createMessage.
AdminMessageSaved(c) ==
  LET messageData == MessageDataOf(h[c].sid, "admin", h[c].message)
  IN Finish(c, Returned(c),
            <<Sent("message:received", SessionRoom(h[c].sid), messageData),
              Sent("message:sent", SocketRoom(c), messageData)>>)

\* The AI reply block after createMessage, the typing signal stopped before
\* the reply is broadcast.
AiMessageSavedStopFirst(c) ==
  LET aiMessageData == AiMessageDataOf(h[c].sid, h[c].message)
  IN Finish(c, [h[c] EXCEPT !.saved = h[c].message],
            <<TypingAdminStop(h[c].sid),
              Sent("message:received", SessionRoom(h[c].sid), aiMessageData),
              Sent("message:new", AdminRoom, aiMessageData)>>)

\* The AI reply block after createMessage.
AiMessageSaved(c) ==
  LET aiMessageData == AiMessageDataOf(h[c].sid, h[c].message)
  IN Finish(c, Returned(c),
            <<Sent("message:received", SessionRoom(h[c].sid), aiMessageData),
              Sent("message:new", AdminRoom, aiMessageData),
              TypingAdminStop(h[c].sid)>>)

\* createMessage whose update of the session writes the status 'active'
\* together with updated_at.
SessionTouchReactivates(c, ok) ==
  /\ Resumes(c, "ChatSession.update")
  /\ IF ~ok
       THEN /\ MessageFailed(c)
            /\ UNCHANGED chat_sessions
       ELSE /\ chat_sessions' =
                 [i \in DOMAIN chat_sessions |->
                    IF chat_sessions[i].sessionId = h[c].arg.sessionId
                      THEN [chat_sessions[i] EXCEPT !.status = "active"]
                      ELSE chat_sessions[i]]
            /\ IF h[c].stage = "ai"
                 THEN AiMessageSaved(c)
                 ELSE IF h[c].ev = "message:user"
                   THEN UserMessageSaved(c)
                   ELSE AdminMessageSaved(c)
  /\ UNCHANGED <<messages, rooms, closedIn, config, nRequests>>

\* createMessage, its ChatSession.update of updated_at, and what the handler
\* does with the message returned.
SessionTouch(c, ok) ==
  /\ Resumes(c, "ChatSession.update")
  /\ IF ~ok
       THEN MessageFailed(c)
       ELSE IF h[c].stage = "ai"
         THEN AiMessageSaved(c)
         ELSE IF h[c].ev = "message:user"
           THEN UserMessageSaved(c)
           ELSE AdminMessageSaved(c)
  /\ UNCHANGED <<chat_sessions, messages, rooms, closedIn, config, nRequests>>

\* ------------------------------------------------------------ AI reply

\* getSession and the call of the reply generator without the test of
\* ai_enabled.
GetSessionKeyOnly(c, ok) ==
  /\ Resumes(c, "getSession")
  /\ IF ~ok
       THEN Finish(c, h[c], <<TypingAdminStop(h[c].sid)>>)
       ELSE IF config.apiKey
         THEN Suspend(c, h[c], "generate",
                      <<Sent("typing:admin", SessionRoom(h[c].sid), NoPayload)>>)
         ELSE Finish(c, h[c], <<>>)
  /\ UNCHANGED <<chat_sessions, messages, rooms, closedIn, config, nRequests>>

\* getSession for the AI reply, the test of ai_enabled and the API key, the
\* typing signal and the call of the reply generator.
GetSession(c, ok) ==
  /\ Resumes(c, "getSession")
  /\ IF ~ok
       THEN Finish(c, h[c], <<TypingAdminStop(h[c].sid)>>)
       ELSE LET id == FindOneSession(h[c].sid)
                aiEnabled == id # 0 /\ chat_sessions[id].aiEnabled
            IN IF aiEnabled /\ config.apiKey
                 THEN Suspend(c, h[c], "generate",
                              <<Sent("typing:admin", SessionRoom(h[c].sid), NoPayload)>>)
                 ELSE Finish(c, h[c], <<>>)
  /\ UNCHANGED <<chat_sessions, messages, rooms, closedIn, config, nRequests>>

\* What the reply generator answers: an error (a rejected call, a status
\* that is not ok), or a completion with the content given (Missing: no
\* choice or no content).
Completions ==
  {[ok |-> FALSE, content |-> Missing],
   [ok |-> TRUE, content |-> Missing],
   [ok |-> TRUE, content |-> <<" ">>],
   [ok |-> TRUE, content |-> <<"o", "k", " ">>]}

\* content?.trim()
AiText(completion) ==
  IF completion.content = Missing THEN Missing ELSE Trim(completion.content)

\* The handler of c with the completion it has received.
Completed(c, completion) == [h[c] EXCEPT !.completion = <<completion>>]

\* The catch around the AI reply without its typing:admin:stop.
GeneratorErrorSilent(c, completion) ==
  Finish(c, Completed(c, completion), <<>>)

\* The catch around the AI reply calling the reply generator again.
GeneratorErrorRetry(c, completion) ==
  Suspend(c, Completed(c, completion), "generate", <<>>)

\* The call of the reply generator has thrown, or its status is not ok: the
\* catch around the AI reply.
GeneratorError(c, completion) ==
  Finish(c, Completed(c, completion), <<TypingAdminStop(h[c].sid)>>)

\* The completion has no text: part_000 throws and its catch stops the
\* typing signal, socket.ts skips the reply and returns.
EmptyReply(c, completion) ==
  IF config.variant = "groq"
    THEN Finish(c, Completed(c, completion), <<TypingAdminStop(h[c].sid)>>)
    ELSE Finish(c, Completed(c, completion), <<>>)

\* The completion has text: createMessage for the automated reply, up to the
\* await of Message.create.
ReplyText(c, completion) ==
  Suspend(c, [Completed(c, completion) EXCEPT
                !.stage = "ai",
                !.arg = [sessionId |-> h[c].sid,
                         message |-> AiText(completion),
                         sender |-> "AI",
                         senderType |-> "admin",
                         isAi |-> TRUE,
                         attachmentUrl |-> UNDEF,
                         attachmentType |-> UNDEF]],
          "Message.create", <<>>)

\* The reply generator has answered.
Generate(c, completion) ==
  /\ Resumes(c, "generate")
  /\ IF ~completion.ok
       THEN GeneratorError(c, completion)
       ELSE IF ~FalsyBody(AiText(completion))
         THEN ReplyText(c, completion)
         ELSE EmptyReply(c, completion)
  /\ UNCHANGED <<chat_sessions, messages, rooms, closedIn, config, nRequests>>

\* ------------------------------------------------ typing:start, typing:stop

TypingData ==
  {[sessionId |-> d[1], senderType |-> d[2]] :
     d \in {<<"s1", "user">>, <<"s2", "user">>, <<"s1", "admin">>, <<"s2", "admin">>,
            <<UNDEF, "user">>, <<"s1", UNDEF>>}}

\* The forwarding of typing:start and typing:stop without the test of
\* sessionId and senderType.
TypingEffectsUnguarded(ev, data) ==
  IF data.senderType = "admin"
    THEN <<Sent(IF ev = "typing:start" THEN "typing:admin" ELSE "typing:admin:stop",
                SessionRoom(data.sessionId), NoPayload)>>
    ELSE <<Sent(IF ev = "typing:start" THEN "typing:user" ELSE "typing:user:stop",
                AdminRoom, [sessionId |-> data.sessionId])>>

\* The forwarding of typing:start and typing:stop with the two rooms
\* exchanged.
TypingEffectsSameSide(ev, data) ==
  IF Falsy(data.sessionId) \/ Falsy(data.senderType)
    THEN <<>>
    ELSE IF data.senderType = "user"
      THEN <<Sent(IF ev = "typing:start" THEN "typing:user" ELSE "typing:user:stop",
                  SessionRoom(data.sessionId), [sessionId |-> data.sessionId])>>
      ELSE <<Sent(IF ev = "typing:start" THEN "typing:admin" ELSE "typing:admin:stop",
                  AdminRoom, NoPayload)>>

\* The event forwarded for typing:start and typing:stop.
TypingEffects(ev, data) ==
  IF Falsy(data.sessionId) \/ Falsy(data.senderType)
    THEN <<>>
    ELSE IF data.senderType = "user"
      THEN <<Sent(IF ev = "typing:start" THEN "typing:user" ELSE "typing:user:stop",
                  AdminRoom, [sessionId |-> data.sessionId])>>
      ELSE <<Sent(IF ev = "typing:start" THEN "typing:admin" ELSE "typing:admin:stop",
                  SessionRoom(data.sessionId), NoPayload)>>

\* socket.on('typing:start') and socket.on('typing:stop')
Typing(c, ev, data) ==
  /\ CanStart(c)
  /\ Begin(c, [ev |-> ev, pc |-> "done", in |-> data, sid |-> data.sessionId],
           TypingEffects(ev, data))
  /\ UNCHANGED <<chat_sessions, messages, rooms, closedIn, config>>

\* --------------------------------------- session:close, disconnect

\* socket.on('session:close'), up to the await of ChatSession.findOne in
\* updateSessionStatus.
SessionClose(c, sessionId) ==
  /\ c \in Users
  /\ CanStart(c)
  /\ Begin(c,
           [ev |-> "session:close",
            pc |-> IF Falsy(sessionId) THEN "done" ELSE "updateSessionStatus:find",
            in |-> [sessionId |-> sessionId],
            sid |-> sessionId,
            status |-> "inactive",
            session |-> NoRow,
            left |-> {}],
           <<>>)
  /\ UNCHANGED <<chat_sessions, messages, rooms, closedIn, config>>

\* The adapter after Socket.IO has closed socket c: the socket has left every
\* room (its own included) before the 'disconnect' listeners are called.
LeaveAll(c) == [rooms EXCEPT ![c] = {}]

\* The for loop of socket.on('disconnect') over the rooms not yet visited, up
\* to the first session room whose fetchSockets() is empty in adapter rs:
\* that room and the rooms left after it, or no room when the loop ends.
\* (fetchSockets of the in-memory adapter reads the room when called and
\* resolves without I/O.)  The rooms are visited in a fixed order.
RECURSIVE DisconnectLoop(_, _)
DisconnectLoop(rs, left) ==
  IF left = {}
    THEN [room |-> <<"", "">>, left |-> {}]
    ELSE LET room == CHOOSE r \in left : TRUE
         IN IF IsSessionRoom(room) /\ {x \in Conns : room \in rs[x]} = {}
              THEN [room |-> room, left |-> left \ {room}]
              ELSE DisconnectLoop(rs, left \ {room})

\* The handler of 'disconnect' from the loop over `left` on.
DisconnectFrom(c, handler, rs, left) ==
  LET next == DisconnectLoop(rs, left)
  IN IF IsSessionRoom(next.room)
       THEN Suspend(c, [handler EXCEPT !.sid = SessionOfRoom(next.room),
                                       !.left = next.left],
                    "updateSessionStatus:find", <<>>)
       ELSE Finish(c, [handler EXCEPT !.sid = UNDEF, !.left = {}], <<>>)

\* The socket closes: Socket.IO removes it from its rooms, then calls
\* socket.on('disconnect'), which reads socket.rooms.
Disconnect(c) ==
  /\ CanStart(c)
  /\ rooms' = LeaveAll(c)
  /\ LET handler == [ev |-> "disconnect", pc |-> "start", in |-> NoPayload,
                     sid |-> UNDEF, status |-> "inactive", session |-> NoRow,
                     left |-> {}]
         next == DisconnectLoop(rooms', rooms'[c])
     IN Begin(c, [handler EXCEPT
                    !.pc = IF IsSessionRoom(next.room)
                             THEN "updateSessionStatus:find" ELSE "done",
                    !.sid = IF IsSessionRoom(next.room)
                              THEN SessionOfRoom(next.room) ELSE UNDEF,
                    !.left = next.left],
              <<>>)
  /\ closedIn' = [closedIn EXCEPT ![c] =
                    [rooms |-> rooms[c],
                     shared |-> {r \in rooms[c] : Members(r) # {c}}]]
  /\ UNCHANGED <<chat_sessions, messages, config>>

\* updateSessionStatus, its ChatSession.findOne.  No row: it throws, and the
\* catch of the handler only logs.
StatusFind(c, ok) ==
  /\ Resumes(c, "updateSessionStatus:find")
  /\ IF ok /\ FindOneSession(h[c].sid) # 0
       THEN Suspend(c, [h[c] EXCEPT !.session = chat_sessions[FindOneSession(h[c].sid)]],
                    "updateSessionStatus:update", <<>>)
       ELSE Finish(c, h[c], <<>>)
  /\ UNCHANGED <<chat_sessions, messages, rooms, closedIn, config, nRequests>>

\* updateSessionStatus writing the status to every row of the table.
StatusUpdateEveryRow(c, ok) ==
  /\ Resumes(c, "updateSessionStatus:update")
  /\ IF ~ok
       THEN /\ Finish(c, h[c], <<>>)
            /\ UNCHANGED chat_sessions
       ELSE /\ chat_sessions' =
                 [i \in DOMAIN chat_sessions |->
                    [chat_sessions[i] EXCEPT !.status = h[c].status]]
            /\ IF h[c].ev = "disconnect"
                 THEN DisconnectFrom(c, h[c], rooms, h[c].left)
                 ELSE Finish(c, h[c], <<>>)
  /\ UNCHANGED <<messages, rooms, closedIn, config, nRequests>>

\* updateSessionStatus, its session.update({ status }), and the handler after
\* it: session:close returns, disconnect goes on with its loop.
StatusUpdate(c, ok) ==
  /\ Resumes(c, "updateSessionStatus:update")
  /\ IF ~ok
       THEN /\ Finish(c, h[c], <<>>)
            /\ UNCHANGED chat_sessions
       ELSE /\ chat_sessions' =
                 [chat_sessions EXCEPT ![h[c].session.id] = [@ EXCEPT !.status = h[c].status]]
            /\ IF h[c].ev = "disconnect"
                 THEN DisconnectFrom(c, h[c], rooms, h[c].left)
                 ELSE Finish(c, h[c], <<>>)
  /\ UNCHANGED <<messages, rooms, closedIn, config, nRequests>>

\* ------------------------------------------------ PATCH /sessions/:id/ai

\* toggleAiForSession with a boolean `enabled`, for a session that exists.
ToggleAi(sessionId, enabled) ==
  /\ Quiet
  /\ nRequests < MaxRequests
  /\ FindOneSession(sessionId) # 0
  /\ chat_sessions' =
       [chat_sessions EXCEPT ![FindOneSession(sessionId)] = [@ EXCEPT !.aiEnabled = enabled]]
  /\ nRequests' = nRequests + 1
  /\ UNCHANGED <<messages, rooms, h, trace, closedIn, config>>

\* ------------------------------------------------------- specification

\* The deployments: the OpenAI handler (socket.ts) or the Groq handler
\* (part_000), with or without its API key in the environment.
Configs == [variant : {"openai", "groq"}, apiKey : BOOLEAN]

\* After setupSocketIO and the connection of every socket: empty tables, each
\* socket in the room of its own id, no handler running.
Init ==
  /\ chat_sessions = <<>>
  /\ messages = <<>>
  /\ rooms = [c \in Conns |-> {SocketRoom(c)}]
  /\ h = [c \in Conns |-> NoHandler]
  /\ trace = [c \in Conns |-> <<>>]
  /\ closedIn = [c \in Conns |-> [rooms |-> {}, shared |-> {}]]
  /\ config \in Configs
  /\ nRequests = 0

\* The steps of user:connect.
ConnectSteps(c) ==
  \/ \E data \in ConnectData : UserConnect(c, data)
  \/ \E ok \in BOOLEAN : FindOrCreateFind(c, ok)
  \/ \E ok \in BOOLEAN : FindOrCreateCreate(c, ok)
  \/ \E ok \in BOOLEAN : SessionUpdate(c, ok)

\* The steps of message:user and message:admin, the AI reply included.
MessageSteps(c) ==
  \/ \E ev \in {"message:user", "message:admin"}, data \in MessagePayloads :
       MessageEvent(c, ev, data)
  \/ \E ok \in BOOLEAN : MessageCreate(c, ok)
  \/ \E ok \in BOOLEAN : SessionTouch(c, ok)
  \/ \E ok \in BOOLEAN : GetSession(c, ok)
  \/ \E completion \in Completions : Generate(c, completion)

\* The steps of session:close and disconnect.
CloseSteps(c) ==
  \/ \E sessionId \in SessionIds \cup {UNDEF} : SessionClose(c, sessionId)
  \/ Disconnect(c)
  \/ \E ok \in BOOLEAN : StatusFind(c, ok)
  \/ \E ok \in BOOLEAN : StatusUpdate(c, ok)

TypingSteps(c) ==
  \E ev \in {"typing:start", "typing:stop"}, data \in TypingData : Typing(c, ev, data)

Toggle == \E sessionId \in SessionIds, enabled \in BOOLEAN : ToggleAi(sessionId, enabled)

Next ==
  \/ Forget
  \/ Toggle
  \/ \E c \in Conns :
       \/ ConnectSteps(c)
       \/ AdminJoin(c)
       \/ MessageSteps(c)
       \/ TypingSteps(c)
       \/ CloseSteps(c)

Spec == Init /\ [][Next]_vars

\* The session life cycle alone: connections, closes and disconnections.
InitLife == Init /\ config = [variant |-> "openai", apiKey |-> FALSE]

NextLife ==
  \/ Forget
  \/ \E c \in Conns :
       \/ ConnectSteps(c)
       \/ AdminJoin(c)
       \/ CloseSteps(c)

SpecLife == InitLife /\ [][NextLife]_vars

\* The conversation alone: connections, messages and AI replies.
NextChat ==
  \/ Forget
  \/ Toggle
  \/ \E c \in Conns :
       \/ ConnectSteps(c)
       \/ AdminJoin(c)
       \/ MessageSteps(c)

SpecChat == Init /\ [][NextChat]_vars

\* The typing signals alone, with the connections that receive them.
NextTyping ==
  \/ Forget
  \/ \E c \in Conns :
       \/ ConnectSteps(c)
       \/ AdminJoin(c)
       \/ TypingSteps(c)
       \/ Disconnect(c)

SpecTyping == InitLife /\ [][NextTyping]_vars

\* The engine with a reply generator call pending: the server starts on a
\* database that holds session s1 with auto-reply enabled (the tables outlive
\* the process) and has its API key.
InitPending ==
  /\ chat_sessions = <<[id |-> 1, sessionId |-> "s1", userIp |-> "unknown",
                        userAgent |-> "unknown", status |-> "active",
                        aiEnabled |-> TRUE]>>
  /\ messages = <<>>
  /\ rooms = [c \in Conns |-> {SocketRoom(c)}]
  /\ h = [c \in Conns |-> NoHandler]
  /\ trace = [c \in Conns |-> <<>>]
  /\ closedIn = [c \in Conns |-> [rooms |-> {}, shared |-> {}]]
  /\ config \in {cf \in Configs : cf.apiKey}
  /\ nRequests = 0

\* The events of the other session, s2, the messages of both sessions,
\* admin:join and the closing of sockets.
PendingSteps(c) ==
  \/ UserConnect(c, [sessionId |-> "s2", userIp |-> UNDEF, userAgent |-> UNDEF])
  \/ \E ok \in BOOLEAN : FindOrCreateFind(c, ok)
  \/ \E ok \in BOOLEAN : FindOrCreateCreate(c, ok)
  \/ \E ok \in BOOLEAN : SessionUpdate(c, ok)
  \/ \E ev \in {"message:user", "message:admin"},
        data \in {p \in MessagePayloads : p.sender = "Alice" /\ ~Invalid(p)} :
       MessageEvent(c, ev, data)
  \/ \E ok \in BOOLEAN : MessageCreate(c, ok)
  \/ \E ok \in BOOLEAN : SessionTouch(c, ok)
  \/ \E ok \in BOOLEAN : GetSession(c, ok)
  \/ \E completion \in Completions : Generate(c, completion)
  \/ Typing(c, "typing:start", [sessionId |-> "s2", senderType |-> "user"])
  \/ AdminJoin(c)
  \/ SessionClose(c, "s2")
  \/ Disconnect(c)
  \/ \E ok \in BOOLEAN : StatusFind(c, ok)
  \/ \E ok \in BOOLEAN : StatusUpdate(c, ok)

NextPending ==
  \/ Forget
  \/ \E c \in Conns : PendingSteps(c)

SpecPending == InitPending /\ [][NextPending]_vars

\* ----------------------------------------------------------- properties

\* The events of kind ev in what the handler of c has done.
EventsOf(c, ev) == {i \in DOMAIN trace[c] : trace[c][i].ev = ev}

\* The rows the handler of c has written, automated or not.
InsertsOf(c, isAi) ==
  {i \in EventsOf(c, "db:insert") : trace[c][i].data.isAi = isAi}

\* The broadcasts of a message, automated or not, the handler of c has made.
BroadcastsOf(c, isAi) ==
  {i \in EventsOf(c, "message:new") \cup EventsOf(c, "message:received") :
     trace[c][i].data.isAi = isAi}

\* A body that is missing, empty or whitespace-only.
BlankBody(body) ==
  \/ body = Missing
  \/ \A i \in DOMAIN body : body[i] \in WhiteSpace

\* A message event the validation is to reject.
Rejectable(data) == Falsy(data.sessionId) \/ BlankBody(data.message)

IsMessageHandler(c) == h[c].ev \in {"message:user", "message:admin"}

\* The handler of c is a message handler whose createMessage has returned the
\* saved message of the human author.
HumanMessageSaved(c) ==
  /\ IsMessageHandler(c)
  /\ ~Rejectable(h[c].in)
  /\ \/ h[c].stage = "ai"
     \/ h[c].pc \in {"getSession", "generate"}
     \/ h[c].pc = "done" /\ EventsOf(c, "error") = {}

\* C1: a message:user or message:admin event with a session id and a body
\* that is not blank, whose persistence succeeds, appends exactly one row to
\* its session, makes exactly one broadcast of it (message:new to the admin
\* room for a user, message:received to the session room for an admin) and
\* acknowledges exactly once, with message:sent, to the sending socket.
C1_OneRowOneBroadcastOneAck ==
  \A c \in Conns :
    HumanMessageSaved(c) =>
      /\ Cardinality(InsertsOf(c, FALSE)) = 1
      /\ \A i \in InsertsOf(c, FALSE) :
           /\ trace[c][i].data.sessionId = h[c].in.sessionId
           /\ trace[c][i].data.message = Trim(h[c].in.message)
           /\ trace[c][i].data.id \in DOMAIN messages
           /\ messages[trace[c][i].data.id] = trace[c][i].data
      /\ Cardinality(BroadcastsOf(c, FALSE)) = 1
      /\ \A i \in BroadcastsOf(c, FALSE) :
           IF h[c].ev = "message:user"
             THEN trace[c][i].ev = "message:new" /\ trace[c][i].room = AdminRoom
             ELSE /\ trace[c][i].ev = "message:received"
                  /\ trace[c][i].room = SessionRoom(h[c].in.sessionId)
      /\ Cardinality(EventsOf(c, "message:sent")) = 1
      /\ \A i \in EventsOf(c, "message:sent") :
           trace[c][i].room = SocketRoom(c) /\ trace[c][i].to = {c}

\* An admin message has been saved, broadcast to a customer in the session
\* room and acknowledged.
C1_Witness ==
  \E c \in Admins :
    /\ HumanMessageSaved(c)
    /\ h[c].ev = "message:admin"
    /\ h[c].pc = "done"
    /\ \E i \in BroadcastsOf(c, FALSE) : trace[c][i].to # {}

\* The handler of c has started in this step on a message event that the
\* validation is to reject.
RejectableArrives(c) ==
  /\ h[c] = NoHandler
  /\ h'[c].ev \in {"message:user", "message:admin"}
  /\ Rejectable(h'[c].in)

\* C2: a message:user or message:admin event without a session id, or with a
\* body that is missing, empty or whitespace-only, writes no message, makes
\* no broadcast, starts no AI reply and emits exactly one 'error' event, to
\* the originating socket only; the tables and the rooms are unchanged.
C2_RejectedLeavesNoTrace ==
  [][\A c \in Conns :
       RejectableArrives(c) =>
         /\ UNCHANGED <<chat_sessions, messages, rooms>>
         /\ h'[c].pc = "done"
         /\ Len(trace'[c]) = 1
         /\ trace'[c][1].ev = "error"
         /\ trace'[c][1].room = SocketRoom(c)
         /\ trace'[c][1].to = {c}
         /\ trace'[c][1].data = [message |-> "Invalid message data"]]_vars

\* A customer's whitespace-only message for an existing session has been
\* rejected while an admin is in the admin room.
C2_Witness ==
  \E c \in Users :
    /\ h[c].ev = "message:user"
    /\ h[c].pc = "done"
    /\ ~Falsy(h[c].in.sessionId)
    /\ h[c].in.message \notin {Missing, <<>>}
    /\ Rejectable(h[c].in)
    /\ SessionExists(h[c].in.sessionId)
    /\ Members(AdminRoom) # {}
    /\ EventsOf(c, "error") # {}

\* The status of the session row of sid.
StatusOf(sid) == chat_sessions[FindOneSession(sid)].status

\* The handler of 'disconnect' of c returns in this step.
DisconnectReturns(c) ==
  /\ h[c].ev # "disconnect" \/ h[c].pc # "done"
  /\ h'[c].ev = "disconnect"
  /\ h'[c].pc = "done"

\* C3: of two connections in the room of a session, when one disconnects
\* while the other remains the status stays 'active'; when the other
\* disconnects too, its disconnect handler leaves the status 'inactive'.
C3_LastDisconnectSetsInactive ==
  [][\A c \in Conns, sid \in SessionIds :
       DisconnectReturns(c) =>
         /\ SessionRoom(sid) \in closedIn'[c].shared
              => (StatusOf(sid) = "active" => StatusOf(sid)' = "active")
         /\ (/\ SessionRoom(sid) \in closedIn'[c].rooms \ closedIn'[c].shared
             /\ \E d \in Conns \ {c} : SessionRoom(sid) \in closedIn[d].shared)
              => StatusOf(sid)' = "inactive"]_vars

\* No handler in flight works on session sid.
NoneInFlight(sid) == \A c \in Conns : h[c].pc # "done" => h[c].sid # sid

\* C4: once the disconnect handlers of two connections of the same session
\* have both finished, whatever their interleaving, the session whose room is
\* empty has status 'inactive'.
C4_NoActiveEmptySession ==
  \A sid \in SessionIds, c1 \in Conns, c2 \in Conns :
    (/\ c1 # c2
     /\ SessionRoom(sid) \in closedIn[c1].shared
     /\ SessionRoom(sid) \in closedIn[c2].rooms
     /\ h[c1].pc = "done"
     /\ h[c2].pc = "done"
     /\ Members(SessionRoom(sid)) = {}
     /\ NoneInFlight(sid))
    => StatusOf(sid) = "inactive"

\* The auto-reply flag of session sid is set.
FlagEnabled(sid) ==
  FindOneSession(sid) # 0 /\ chat_sessions[FindOneSession(sid)].aiEnabled

\* The handler of c has begun the AI reply: it has signalled typing, calls
\* the generator, or has written or broadcast an automated message.
AiReplyBegun(c) ==
  /\ h[c].ev = "message:user"
  /\ \/ h[c].pc = "generate"
     \/ h[c].stage = "ai"
     \/ EventsOf(c, "typing:admin") # {}
     \/ InsertsOf(c, TRUE) # {}
     \/ BroadcastsOf(c, TRUE) # {}

\* C5: while the auto-reply flag of a session is disabled, a message:user
\* event for it leads to no message:received with isAi = true and to no
\* automated row: a handler begins the AI reply only in a step in which it
\* reads the flag enabled.
C5_NoReplyWhenDisabled ==
  [][\A c \in Conns :
       (~AiReplyBegun(c) /\ AiReplyBegun(c)') => FlagEnabled(h'[c].sid)]_vars

\* With the API key set and the flag of the session disabled, a customer's
\* message has been saved and acknowledged and its handler has returned
\* without an AI reply, a customer being in the session room.
C5_Witness ==
  \E c \in Users :
    /\ h[c].ev = "message:user"
    /\ h[c].pc = "done"
    /\ EventsOf(c, "message:sent") # {}
    /\ config.apiKey
    /\ ~FlagEnabled(h[c].sid)
    /\ Members(SessionRoom(h[c].sid)) # {}
    /\ ~AiReplyBegun(c)

\* The reply generator has answered the handler of c with an error.
GeneratorFailed(c) ==
  /\ h[c].ev = "message:user"
  /\ h[c].completion # <<>>
  /\ ~h[c].completion[1].ok

\* The last event of the handler of c is typing:admin:stop to the room of
\* its session.
EndsWithTypingStop(c) ==
  /\ trace[c] # <<>>
  /\ trace[c][Len(trace[c])].ev = "typing:admin:stop"
  /\ trace[c][Len(trace[c])].room = SessionRoom(h[c].sid)

\* C6: when the reply generator returns an error, the session room gets
\* typing:admin:stop, no message:received is emitted for the reply, no
\* automated row is written and no 'error' event goes to the customer.
C6_GeneratorErrorStopsTyping ==
  \A c \in Conns :
    GeneratorFailed(c) =>
      /\ h[c].pc = "done"
      /\ EndsWithTypingStop(c)
      /\ Cardinality(EventsOf(c, "typing:admin:stop")) = 1
      /\ BroadcastsOf(c, TRUE) = {}
      /\ InsertsOf(c, TRUE) = {}
      /\ EventsOf(c, "error") = {}

\* The generator has failed for a session whose room holds a customer.
C6_Witness ==
  \E c \in Users :
    /\ GeneratorFailed(c)
    /\ Members(SessionRoom(h[c].sid)) # {}
    /\ \E i \in EventsOf(c, "typing:admin:stop") : trace[c][i].to # {}

\* The AI reply of the handler of c has ended in a failure: the generator
\* has answered with an error or with a text that is missing or blank, or
\* the reply could not be persisted.
AiReplyFailed(c) ==
  /\ h[c].ev = "message:user"
  /\ h[c].pc = "done"
  /\ h[c].completion # <<>>
  /\ \/ ~h[c].completion[1].ok
     \/ BlankBody(h[c].completion[1].content)
     \/ BroadcastsOf(c, TRUE) = {}

\* C7: once the AI reply has signalled typing:admin, every failure of it
\* (generator error, text empty or missing, exception while persisting the
\* reply) ends with typing:admin:stop to the session room, after the
\* typing:admin, and without an 'error' event.
C7_FailureStopsTyping ==
  \A c \in Conns :
    (AiReplyFailed(c) /\ EventsOf(c, "typing:admin") # {}) =>
      /\ \E i \in EventsOf(c, "typing:admin"), j \in EventsOf(c, "typing:admin:stop") :
           i < j /\ trace[c][j].room = SessionRoom(h[c].sid)
      /\ EventsOf(c, "error") = {}

\* What the handler of c has done from its typing:admin on.
AiPart(c) ==
  LET first == CHOOSE i \in EventsOf(c, "typing:admin") :
                 \A j \in EventsOf(c, "typing:admin") : i <= j
  IN SubSeq(trace[c], first, Len(trace[c]))

\* The automated reply of the handler of c has been persisted and broadcast.
AiReplySent(c) ==
  /\ h[c].ev = "message:user"
  /\ h[c].completion # <<>>
  /\ h[c].completion[1].ok
  /\ ~BlankBody(h[c].completion[1].content)
  /\ h[c].stage = "ai"
  /\ h[c].pc = "done"
  /\ EventsOf(c, "error") = {}
  /\ BroadcastsOf(c, TRUE) # {}

\* C8: with auto-reply enabled and a non-empty text from the generator, the
\* AI reply does, in this order and each once: typing:admin to the session
\* room; the insert of the reply with author class admin, automated and
\* author name 'AI'; message:received to the session room; message:new to the
\* admin room; typing:admin:stop to the session room.
C8_ReplyOrder ==
  \A c \in Conns :
    AiReplySent(c) =>
      LET ai == AiPart(c)
          room == SessionRoom(h[c].sid)
      IN /\ Cardinality(EventsOf(c, "typing:admin")) = 1
         /\ Len(ai) = 5
         /\ ai[1].ev = "typing:admin" /\ ai[1].room = room
         /\ ai[2].ev = "db:insert"
         /\ ai[2].data.senderType = "admin"
         /\ ai[2].data.isAi
         /\ ai[2].data.sender = "AI"
         /\ ai[2].data.sessionId = h[c].sid
         /\ ai[2].data.message = Trim(h[c].completion[1].content)
         /\ ai[2].data.id \in DOMAIN messages
         /\ messages[ai[2].data.id] = ai[2].data
         /\ ai[3].ev = "message:received" /\ ai[3].room = room
         /\ ai[3].data.isAi /\ ai[3].data.message = ai[2].data.message
         /\ ai[4].ev = "message:new" /\ ai[4].room = AdminRoom
         /\ ai[4].data = ai[3].data
         /\ ai[5].ev = "typing:admin:stop" /\ ai[5].room = room

\* An automated reply has reached a customer in the session room and an
\* admin in the admin room.
C8_Witness ==
  \E c \in Users :
    /\ AiReplySent(c)
    /\ \E i \in EventsOf(c, "message:received") : trace[c][i].to # {}
    /\ \E i \in BroadcastsOf(c, TRUE) :
         trace[c][i].ev = "message:new" /\ trace[c][i].to # {}

IsTypingHandler(c) == h[c].ev \in {"typing:start", "typing:stop"}

\* C9: a typing:start or typing:stop event of author class 'user' is
\* delivered only to members of the admin room, never to a socket that is
\* only in the room of the session; of author class 'admin' only to members
\* of the room of the session, never to a socket that is only in the admin
\* room.
C9_TypingGoesToTheOtherSide ==
  \A c \in Conns :
    (/\ IsTypingHandler(c)
     /\ ~Falsy(h[c].in.sessionId)
     /\ h[c].in.senderType \in {"user", "admin"})
    => LET room == SessionRoom(h[c].in.sessionId)
           start == h[c].ev = "typing:start"
       IN /\ Len(trace[c]) = 1
          /\ IF h[c].in.senderType = "user"
               THEN /\ trace[c][1].ev = IF start THEN "typing:user" ELSE "typing:user:stop"
                    /\ \A x \in trace[c][1].to : AdminRoom \in rooms[x]
                    /\ \A x \in Conns :
                         (room \in rooms[x] /\ AdminRoom \notin rooms[x])
                           => x \notin trace[c][1].to
               ELSE /\ trace[c][1].ev = IF start THEN "typing:admin" ELSE "typing:admin:stop"
                    /\ \A x \in trace[c][1].to : room \in rooms[x]
                    /\ \A x \in Conns :
                         (AdminRoom \in rooms[x] /\ room \notin rooms[x])
                           => x \notin trace[c][1].to

\* A customer in the room of a session has signalled typing for it, and the
\* signal has gone to the admin in the admin room.
C9_Witness ==
  \E c \in Users :
    /\ h[c].ev = "typing:start"
    /\ h[c].in.senderType = "user"
    /\ ~Falsy(h[c].in.sessionId)
    /\ SessionRoom(h[c].in.sessionId) \in rooms[c]
    /\ trace[c] # <<>>
    /\ trace[c][1].to = Admins

\* C10: user:connect with the same supplied session id, twice in sequence or
\* from two connections at once, leaves at most one row with that id, and a
\* call that finds the row updates it: when the handler returns, the row is
\* 'active' and carries the metadata of the call.
C10_OneRowPerSessionId ==
  /\ \A sid \in SessionIds : Cardinality(SessionRows(sid)) <= 1
  /\ \A c \in Conns :
       (h[c].ev = "user:connect" /\ h[c].pc = "done"
          /\ EventsOf(c, "user:connected") # {})
       => /\ Cardinality(SessionRows(h[c].sid)) = 1
          /\ StatusOf(h[c].sid) = "active"
          /\ chat_sessions[FindOneSession(h[c].sid)].userIp = h[c].arg.userIp
          /\ chat_sessions[FindOneSession(h[c].sid)].userAgent = h[c].arg.userAgent

\* A second connection has connected with a session id another connection
\* had connected with, and has updated the metadata of its row.
C10_Witness ==
  \E c \in Users, d \in Users :
    /\ c # d
    /\ h[c].ev = "user:connect"
    /\ h[c].pc = "done"
    /\ EventsOf(c, "user:connected") # {}
    /\ h[c].in.sessionId = h[c].sid
    /\ SessionRoom(h[c].sid) \in rooms[d]
    /\ h[c].in.userIp = "10.0.0.7"
    /\ chat_sessions[FindOneSession(h[c].sid)].userIp = "10.0.0.7"

\* The handler of user:connect of c starts in this step.
ConnectArrives(c) ==
  /\ h[c] = NoHandler
  /\ h'[c].ev = "user:connect"

\* The handler of user:connect of c has returned after createOrUpdateSession
\* succeeded.
ConnectSucceeded(c) ==
  /\ h[c].ev = "user:connect"
  /\ h[c].pc = "done"
  /\ EventsOf(c, "error") = {}

\* What holds when user:connect has succeeded: the row of the id is there and
\* 'active', the socket is in the room of the id and has received the one
\* user:connected, which carries the id.
ConnectedAsPromised(c) ==
  /\ SessionRows(h[c].sid) # {}
  /\ StatusOf(h[c].sid) = "active"
  /\ SessionRoom(h[c].sid) \in rooms[c]
  /\ Len(trace[c]) = 1
  /\ trace[c][1].ev = "user:connected"
  /\ trace[c][1].to = {c}
  /\ trace[c][1].data = [sessionId |-> h[c].sid]

\* C11: user:connect without a session id mints a non-empty id that no
\* session has; with a supplied id it uses that id.  When persistence
\* succeeds the row of the id exists and is 'active', the connection is in
\* `session:<id>` and receives exactly one user:connected with that id.
C11_ConnectAssignsSession ==
  [][\A c \in Conns :
       /\ ConnectArrives(c) =>
            IF Falsy(h'[c].in.sessionId)
              THEN /\ ~Falsy(h'[c].sid)
                   /\ SessionRows(h'[c].sid) = {}
              ELSE h'[c].sid = h'[c].in.sessionId
       /\ ConnectSucceeded(c)' => ConnectedAsPromised(c)']_vars

\* A connection without a session id has been given a new one while another
\* session existed.
C11_Witness ==
  \E c \in Users :
    /\ ConnectSucceeded(c)
    /\ Falsy(h[c].in.sessionId)
    /\ ConnectedAsPromised(c)
    /\ Len(chat_sessions) = 2

\* C12: no engine event changes the identifier of a session, and the only
\* change of status made to an existing session is from 'active' to
\* 'inactive': no event moves a session from 'inactive' or 'closed' back to
\* 'active'.
C12_StatusOnlyActiveToInactive ==
  [][\A i \in DOMAIN chat_sessions :
       /\ chat_sessions'[i].sessionId = chat_sessions[i].sessionId
       /\ chat_sessions'[i].status # chat_sessions[i].status
            => /\ chat_sessions[i].status = "active"
               /\ chat_sessions'[i].status = "inactive"]_vars

\* The session rooms connection c is in.
SessionRoomsOf(c) == {r \in rooms[c] : IsSessionRoom(r)}

\* C13: in every state a connection is in at most one `session:<id>` room
\* (besides, possibly, the admin room), also after it has sent user:connect
\* more than once with different session ids.
C13_AtMostOneSessionRoom ==
  \A c \in Conns : Cardinality(SessionRoomsOf(c)) <= 1

\* The events that carry a message.
CarriesMessage(e) == e.ev \in {"message:new", "message:received", "message:sent"}

\* Table rows holds a row of the session of payload data with its body,
\* sender, sender type and isAi flag.
PersistedIn(rows, data) ==
  \E j \in DOMAIN rows :
    /\ rows[j].sessionId = data.sessionId
    /\ rows[j].message = data.message
    /\ rows[j].sender = data.sender
    /\ rows[j].senderType = data.senderType
    /\ rows[j].isAi = data.isAi

\* C14: persistence precedes fan-out: when message:new, message:received or
\* message:sent is emitted, the message it carries is already in the table
\* for that session, with the same body, sender, sender type and isAi flag.
C14_PersistedBeforeFanOut ==
  [][\A c \in Conns :
       \A i \in DOMAIN trace'[c] :
         (i > Len(trace[c]) /\ CarriesMessage(trace'[c][i]))
           => PersistedIn(messages, trace'[c][i].data)]_vars

\* A customer's message has been broadcast to an admin in the admin room and
\* its row is in the table.
C14_Witness ==
  \E c \in Users :
    \E i \in EventsOf(c, "message:new") :
      /\ h[c].ev = "message:user"
      /\ trace[c][i].to # {}
      /\ ~trace[c][i].data.isAi
      /\ PersistedIn(messages, trace[c][i].data)

\* What the engine holds of session sid: its rows, its message log and the
\* members of its room.
SessionState(sid) ==
  [rows |-> {chat_sessions[i] : i \in SessionRows(sid)},
   log |-> getMessagesBySession(sid),
   members |-> Members(SessionRoom(sid))]

\* The handler of c takes a step on an event for session sid.
HandlerStepFor(c, sid) ==
  /\ h'[c] # h[c]
  /\ h'[c].ev \notin {"none", "disconnect"}
  /\ h'[c].sid = sid

\* C15: a failure (validation, persistence or reply generator) while an event
\* for session S is processed leaves the status, the messages and the room of
\* every other session T unchanged and does not touch the handlers in flight
\* for T, their AI replies included.  It is stated for every step of a
\* handler working for S, the failing ones among them.
C15_OtherSessionsUntouched ==
  [][\A c \in Conns, S \in SessionIds \cup {UNDEF} :
       HandlerStepFor(c, S) =>
         /\ \A T \in SessionIds \ {S} : SessionState(T)' = SessionState(T)
         /\ \A d \in Conns \ {c} : h'[d] = h[d] /\ trace'[d] = trace[d]]_vars

\* An event for one session has failed while the AI reply of another session
\* waits for the reply generator.
C15_Witness ==
  \E c \in Conns, d \in Users :
    /\ c # d
    /\ h[c].pc = "done"
    /\ EventsOf(c, "error") # {}
    /\ ~Falsy(h[c].sid)
    /\ h[d].pc = "generate"
    /\ h[d].sid # h[c].sid

\* The reply generator call of the handler of c is unresolved.
PendingCall(c) == h[c].pc = "generate"

\* The next step of the handler in flight of d that awaits the persistence
\* service.
HandlerStep(d) ==
  \E ok \in BOOLEAN :
    \/ FindOrCreateFind(d, ok)
    \/ FindOrCreateCreate(d, ok)
    \/ SessionUpdate(d, ok)
    \/ MessageCreate(d, ok)
    \/ SessionTouch(d, ok)
    \/ GetSession(d, ok)
    \/ StatusFind(d, ok)
    \/ StatusUpdate(d, ok)

\* The handler of d awaits the persistence service (and the messages table
\* has room for the row it may write).
AwaitsPersistence(d) ==
  /\ h[d].pc \notin {"done", "generate"}
  /\ h[d].pc = "Message.create" => Len(messages) < MaxMessages

\* Every event of session s2 that d may send is accepted now.
AcceptsEvents(d) ==
  /\ ENABLED Typing(d, "typing:start", [sessionId |-> "s2", senderType |-> "user"])
  /\ nRequests < MaxRequests =>
       /\ \A ev \in {"message:user", "message:admin"} :
            d \in (IF ev = "message:user" THEN Users ELSE Admins) =>
              \A data \in {p \in MessagePayloads : p.sessionId = "s2"} :
                ENABLED MessageEvent(d, ev, data)
       /\ d \in Users =>
            /\ ENABLED UserConnect(d, [sessionId |-> "s2", userIp |-> UNDEF,
                                       userAgent |-> UNDEF])
            /\ ENABLED SessionClose(d, "s2")

\* C16: a pending reply generator call blocks nothing: while the call of a
\* handler is unresolved, the message:new broadcast and the message:sent
\* acknowledgement of the user's message have been emitted, every handler in
\* flight on another connection can take its next step, and every other
\* connection whose handler has returned accepts its connect, message, typing
\* and close events.
C16_PendingCallBlocksNothing ==
  \A c \in Conns :
    PendingCall(c) =>
      /\ EventsOf(c, "message:new") # {}
      /\ EventsOf(c, "message:sent") # {}
      /\ Quiet =>
           \A d \in Conns \ {c} :
             /\ AwaitsPersistence(d) => ENABLED HandlerStep(d)
             /\ (Connected(d) /\ h[d].pc = "done") => AcceptsEvents(d)

\* While the call of u1 for session s1 is pending, a user:connect for
\* session s2 on another connection has run to completion.
C16_Witness ==
  \E c \in Conns, d \in Conns :
    /\ c # d
    /\ PendingCall(c)
    /\ h[c].sid = "s1"
    /\ ConnectSucceeded(d)
    /\ h[d].sid = "s2"
    /\ EventsOf(d, "user:connected") # {}

\* The rows of session sid in the messages table written by the reply
\* generator (isAi) or by a user.
AiRowsOf(sid) ==
  {i \in DOMAIN messages : messages[i].sessionId = sid /\ messages[i].isAi}

UserRowsOf(sid) ==
  {i \in DOMAIN messages :
     messages[i].sessionId = sid /\ messages[i].senderType = "user"}

\* The handler of c has called the reply generator at most once (typing:admin
\* is emitted right before each call) and has persisted and broadcast at most
\* one automated reply.
AtMostOneReply(c) ==
  IsMessageHandler(c) =>
    /\ Cardinality(EventsOf(c, "typing:admin")) <= 1
    /\ Cardinality(InsertsOf(c, TRUE)) <= 1
    /\ Cardinality({i \in BroadcastsOf(c, TRUE) : trace[c][i].ev = "message:received"}) <= 1
    /\ Cardinality({i \in BroadcastsOf(c, TRUE) : trace[c][i].ev = "message:new"}) <= 1

\* The reply generator has answered the handler of c.
Answered(c) == IsMessageHandler(c) /\ h[c].completion # <<>>

\* C17: for each persisted user message the reply generator is called at
\* most once and at most one automated reply is persisted and broadcast; once
\* the generator has answered (with an error or not) the handler never waits
\* for it again.
C17_AtMostOneReply ==
  [][/\ \A c \in Conns :
          /\ AtMostOneReply(c)'
          /\ Answered(c) => ~PendingCall(c)'
     /\ \A sid \in SessionIds :
          Cardinality(AiRowsOf(sid))' <= Cardinality(UserRowsOf(sid))']_vars

\* The handler of u1 has returned after its one call of the generator: one
\* automated reply is in the table of its session and has been broadcast once.
C17_Witness ==
  \E c \in Users :
    /\ h[c].pc = "done"
    /\ Answered(c)
    /\ Cardinality(EventsOf(c, "typing:admin")) = 1
    /\ Cardinality(InsertsOf(c, TRUE)) = 1
    /\ Cardinality(AiRowsOf(h[c].sid)) = 1
    /\ Cardinality(BroadcastsOf(c, TRUE)) = 2

\* The step is the failure of the persistence operation the handler of c
\* awaits.
PersistenceFails(c) ==
  \/ FindOrCreateFind(c, FALSE)
  \/ FindOrCreateCreate(c, FALSE)
  \/ SessionUpdate(c, FALSE)
  \/ MessageCreate(c, FALSE)
  \/ SessionTouch(c, FALSE)
  \/ GetSession(c, FALSE)
  \/ StatusFind(c, FALSE)
  \/ StatusUpdate(c, FALSE)

\* The step ends the handler of c with one more event, an 'error' emitted to
\* the socket of c alone.
SurfacedAsError(c) ==
  /\ h'[c].pc = "done"
  /\ Len(trace'[c]) = Len(trace[c]) + 1
  /\ SubSeq(trace'[c], 1, Len(trace[c])) = trace[c]
  /\ trace'[c][Len(trace'[c])].ev = "error"
  /\ trace'[c][Len(trace'[c])].room = SocketRoom(c)
  /\ trace'[c][Len(trace'[c])].to \subseteq {c}

\* C18: every persistence failure in the handler of user:connect,
\* message:user, message:admin or session:close ends the handler (the
\* operation is not retried) with a generic 'error' event sent to the
\* offending connection and to no other.
C18_FailureSurfacedAsError ==
  [][\A c \in Conns :
       (/\ h[c].ev \in {"user:connect", "message:user", "message:admin", "session:close"}
        /\ PersistenceFails(c))
         => SurfacedAsError(c)]_vars

\* C19: every persisted message has its attachment URL and its attachment
\* media type both present or both absent, whatever the payload of
\* message:user or message:admin supplied.
C19_AttachmentBothOrNeither ==
  \A i \in DOMAIN messages :
    (messages[i].attachmentUrl = NULL) <=> (messages[i].attachmentType = NULL)

\* Sequence s is a prefix of sequence t.
IsPrefix(s, t) ==
  /\ Len(s) <= Len(t)
  /\ SubSeq(t, 1, Len(s)) = s

\* C20: the message log is append-only: no step of the engine (connect,
\* message, typing, session:close, disconnect, AI reply) changes or removes a
\* persisted message; the log of each session before a step is a prefix of
\* its log after the step.
C20_LogAppendOnly ==
  [][/\ IsPrefix(messages, messages')
     /\ \A sid \in SessionIds :
          IsPrefix(getMessagesBySession(sid), getMessagesBySession(sid)')]_vars

\* A second message has been appended to a log that held one, and a
\* disconnect handler has run on a table that holds messages.
C20_Witness ==
  /\ Len(messages) = 2
  /\ \E sid \in SessionIds : Len(getMessagesBySession(sid)) = 2
  /\ \E c \in Conns : h[c].ev = "disconnect"

\* The object getMessagesBySession builds of a row found (messages.map), and
\* the list it returns.
ListedMessage(msg) ==
  [id |-> msg.id,
   session_id |-> msg.sessionId,
   message |-> msg.message,
   sender |-> msg.sender,
   sender_type |-> msg.senderType,
   attachment_url |-> msg.attachmentUrl,
   attachment_type |-> msg.attachmentType,
   is_ai |-> msg.isAi]

MessageList(sid) ==
  [i \in DOMAIN getMessagesBySession(sid) |-> ListedMessage(getMessagesBySession(sid)[i])]

\* The step is createMessage returning the saved message to the handler of c.
CreateMessageSucceeds(c) == SessionTouch(c, TRUE)

\* The list holds, at one place, the message that createMessage was given as
\* messageData and has returned as saved: the same body, author, author
\* class, automated flag and attachment fields.
ListsSaved(list, messageData, saved) ==
  \E i \in DOMAIN list :
    /\ list[i].id = saved.id
    /\ list[i].message = messageData.message
    /\ list[i].sender = messageData.sender
    /\ list[i].sender_type = messageData.senderType
    /\ list[i].is_ai = messageData.isAi
    /\ list[i].attachment_url = saved.attachmentUrl
    /\ list[i].attachment_type = saved.attachmentType
    /\ \A j \in DOMAIN list : list[j].id = saved.id => j = i

\* The list of session sid is in the order of creation and holds the
\* messages of that session, all of them and no other.
ListedInOrder(sid) ==
  /\ \A i, j \in DOMAIN MessageList(sid) :
       i < j => MessageList(sid)[i].id < MessageList(sid)[j].id
  /\ \A i \in DOMAIN MessageList(sid) : MessageList(sid)[i].session_id = sid
  /\ {MessageList(sid)[i].id : i \in DOMAIN MessageList(sid)} =
       {messages[i].id : i \in {k \in DOMAIN messages : messages[k].sessionId = sid}}

\* C21: round trip: when createMessage has succeeded for a session, the list
\* of that session's messages holds the message with the same body, author,
\* author class, automated flag and attachment fields, and the list is in
\* ascending order of creation and holds only messages of that session.
C21_SavedThenListed ==
  [][\A c \in Conns :
       CreateMessageSucceeds(c) =>
         /\ ListsSaved(MessageList(h[c].sid)', h[c].arg, h'[c].saved)
         /\ ListedInOrder(h[c].sid)']_vars

\* createMessage has returned the second message of a session, one that
\* carries an attachment or follows one that does.
C21_Witness ==
  \E c \in Conns :
    /\ IsMessageHandler(c)
    /\ h[c].saved # NoRow
    /\ h[c].saved.id = 2
    /\ Len(MessageList(h[c].sid)) = 2
    /\ \E i \in DOMAIN MessageList(h[c].sid) :
         MessageList(h[c].sid)[i].attachment_url # NULL

\* The step is taken by the handler of session:close of c.
CloseStep(c) ==
  /\ h'[c] # h[c]
  /\ h'[c].ev = "session:close"

\* C22: session:close with the id of an existing session sets the status of
\* that session to 'inactive', whoever is in its room, and changes no other
\* session, no message and no membership; with no sessionId, or with the id
\* of no session, no row is changed or created.
C22_CloseSetsInactiveOnly ==
  [][\A c \in Conns :
       CloseStep(c) =>
         /\ messages' = messages
         /\ rooms' = rooms
         /\ Len(chat_sessions') = Len(chat_sessions)
         /\ \A i \in DOMAIN chat_sessions :
              \/ chat_sessions'[i] = chat_sessions[i]
              \/ /\ chat_sessions[i].sessionId = h'[c].sid
                 /\ chat_sessions'[i] = [chat_sessions[i] EXCEPT !.status = "inactive"]
         /\ FindOneSession(h'[c].sid) = 0 => chat_sessions' = chat_sessions
         /\ StatusUpdate(c, TRUE) => StatusOf(h[c].sid)' = "inactive"]_vars

\* session:close has set a session 'inactive' while its room has members and
\* another session is 'active'.
C22_Witness ==
  \E c \in Conns :
    /\ h[c].ev = "session:close"
    /\ h[c].pc = "done"
    /\ h[c].session # NoRow
    /\ h[c].session.status = "active"
    /\ StatusOf(h[c].sid) = "inactive"
    /\ Members(SessionRoom(h[c].sid)) # {}
    /\ \E i \in DOMAIN chat_sessions :
         chat_sessions[i].sessionId # h[c].sid /\ chat_sessions[i].status = "active"

\* What message:new and message:sent are to carry for the payload of a
\* message:user event.
CarriesUserMessage(e, data) ==
  /\ e.data.sessionId = data.sessionId
  /\ e.data.message = Trim(data.message)
  /\ e.data.sender = (IF Falsy(data.sender) THEN "User" ELSE data.sender)
  /\ e.data.senderType = "user"
  /\ e.data.isAi = FALSE

\* C23: for a valid message:user event, the message:sent echo received by
\* the sender and the message:new received by every member of the admin room
\* carry the same content: the sessionId, the trimmed body, the sender name
\* supplied (or the default name), senderType 'user' and isAi false.
C23_EchoEqualsBroadcast ==
  [][\A c \in Conns :
       (h[c].ev = "message:user" /\ CreateMessageSucceeds(c) /\ h[c].stage = "human") =>
         \E i, j \in DOMAIN trace'[c] :
           /\ EventsOf(c, "message:sent")' = {i}
           /\ BroadcastsOf(c, FALSE)' = {j}
           /\ trace'[c][j].ev = "message:new"
           /\ trace'[c][i].to = {c}
           /\ trace'[c][j].to = Members(AdminRoom)
           /\ trace'[c][i].data = trace'[c][j].data
           /\ CarriesUserMessage(trace'[c][i], h[c].in)
           /\ CarriesUserMessage(trace'[c][j], h[c].in)]_vars

\* A user message whose body had to be trimmed and whose sender was not
\* supplied has been echoed to its sender and broadcast to an admin.
C23_Witness ==
  \E c \in Users :
    /\ h[c].ev = "message:user"
    /\ h[c].in.message # Trim(h[c].in.message)
    /\ Falsy(h[c].in.sender)
    /\ EventsOf(c, "message:sent") # {}
    /\ \E j \in BroadcastsOf(c, FALSE) : trace[c][j].to # {}

\* The handler of c takes its step from the lookup of the auto-reply flag.
FlagLookupReturns(c) ==
  /\ h[c].ev = "message:user"
  /\ h[c].pc = "getSession"
  /\ h'[c] # h[c]

\* C24: when a user message has been persisted for a session whose
\* auto-reply flag is disabled, or when no API key is configured, the AI
\* reply is skipped silently: the reply generator is not called, the handler
\* returns, and it emits nothing (no typing:admin, no typing:admin:stop, no
\* 'error').
C24_SkippedSilently ==
  [][\A c \in Conns :
       (FlagLookupReturns(c) /\ (~config.apiKey \/ ~FlagEnabled(h[c].sid))) =>
         /\ h'[c].pc = "done"
         /\ trace'[c] = trace[c]]_vars

\* The places in the trace of c of the events emitted in this step.
NewEvents(c) ==
  IF h[c].pc = "done"
    THEN DOMAIN trace'[c]
    ELSE (Len(trace[c]) + 1)..Len(trace'[c])

\* The step is admin:join of c.
AdminJoins(c) ==
  /\ h[c] = NoHandler
  /\ h'[c].ev = "admin:join"

\* The step is the return of user:connect of c after it has joined its room.
ConnectJoins(c) ==
  /\ h[c].ev = "user:connect"
  /\ h[c].pc # "done"
  /\ ConnectSucceeded(c)'

TypingArrives(c) ==
  /\ h[c] = NoHandler
  /\ IsTypingHandler(c)'

\* C26: typing:start and typing:stop change no session row, no status, no
\* message and no room membership, and nothing else of the engine but the
\* running handler itself, which holds its payload only and is gone when it
\* has returned; a typing event without sessionId or without senderType emits nothing, not even an
\* 'error'.
C26_TypingKeepsNoState ==
  [][\A c \in Conns :
       TypingArrives(c) =>
         /\ UNCHANGED <<chat_sessions, messages, rooms, closedIn, config, nRequests>>
         /\ \A d \in Conns \ {c} : h'[d] = h[d] /\ trace'[d] = trace[d]
         /\ h'[c].pc = "done"
         /\ h'[c] = [ev |-> h'[c].ev, pc |-> "done", in |-> h'[c].in,
                      sid |-> h'[c].in.sessionId]
         /\ (Falsy(h'[c].in.sessionId) \/ Falsy(h'[c].in.senderType)) => trace'[c] = <<>>]_vars

\* A typing:start without senderType has been handled, with a session stored
\* and an admin and a customer in the rooms a signal would have gone to.
C26_Witness ==
  \E c \in Conns :
    /\ h[c].ev = "typing:start"
    /\ ~Falsy(h[c].in.sessionId)
    /\ Falsy(h[c].in.senderType)
    /\ trace[c] = <<>>
    /\ Members(AdminRoom) # {}
    /\ Members(SessionRoom(h[c].in.sessionId)) # {}
    /\ chat_sessions # <<>>

\* The handler of d, for a user message of session sid, has broadcast its
\* message:new to admin a.
HasBroadcastTo(d, sid, a) ==
  /\ h[d].ev = "message:user"
  /\ h[d].sid = sid
  /\ \E i \in BroadcastsOf(d, FALSE) : a \in trace[d][i].to

\* C27: for two valid user messages of one session, a member of the admin
\* room receives their message:new events in the order of the two messages
\* in the persisted history of the session, however the two handlers
\* interleave: when a handler broadcasts its message to an admin who has
\* received the message of another handler already, that other message is
\* the earlier of the two in the history.
C27_BroadcastInHistoryOrder ==
  [][\A c \in Conns, d \in Conns, a \in Conns :
       (/\ c # d
        /\ h[c].ev = "message:user"
        /\ h[c].stage = "human"
        /\ CreateMessageSucceeds(c)
        /\ AdminRoom \in rooms[a]
        /\ HasBroadcastTo(d, h[c].sid, a))
         => h[d].saved.id < h[c].message.id]_vars

\* The step is the insert of the automated reply of the handler of c.
ReplyPersisted(c) ==
  /\ h[c].ev = "message:user"
  /\ h[c].stage = "ai"
  /\ MessageCreate(c, TRUE)
  /\ Len(messages') = Len(messages) + 1

\* C28: when two user messages m1, m2 of one session each get an automated
\* reply, the reply to m1 is persisted and broadcast before the reply to m2,
\* in whatever order the two generator calls complete: when the reply to a
\* user message is persisted, every automated row the session holds already
\* answers an earlier user message of the session (there are no more of them
\* than user messages before that one).
C28_RepliesInMessageOrder ==
  [][\A c \in Conns :
       ReplyPersisted(c) =>
         Cardinality(AiRowsOf(h[c].sid)) <=
           Cardinality({i \in UserRowsOf(h[c].sid) : i < h[c].saved.id})]_vars

\* The handler of c, a message:user handler, emits typing:admin:stop to the
\* room of session sid in this step.
StopsTyping(c, sid) ==
  /\ h[c].ev = "message:user"
  /\ h[c].pc # "done"
  /\ \E i \in NewEvents(c) :
       /\ trace'[c][i].ev = "typing:admin:stop"
       /\ trace'[c][i].room = SessionRoom(sid)

\* C29: the composing indicator of a session agrees with its pending AI
\* work: no AI reply emits typing:admin:stop to the room of a session while
\* another AI reply of the same session has emitted typing:admin and waits
\* for the reply generator.
C29_NoStopWhileAnotherPending ==
  [][\A c \in Conns, d \in Conns :
       (/\ c # d
        /\ PendingCall(d)
        /\ EventsOf(d, "typing:admin") # {})
         => ~StopsTyping(c, h[d].sid)]_vars

\* C30: an AI reply emits typing:admin:stop to the room of its session only
\* after it has itself emitted typing:admin to that room, and at most once;
\* so none when the lookup of the auto-reply flag (getSession) fails.
C30_StopOnlyAfterStart ==
  \A c \in Conns :
    h[c].ev = "message:user" =>
      /\ Cardinality(EventsOf(c, "typing:admin:stop")) <= 1
      /\ \A i \in EventsOf(c, "typing:admin:stop") :
           \E j \in EventsOf(c, "typing:admin") :
             j < i /\ trace[c][j].room = trace[c][i].room

\* The handler of c has answered with the error event of a failed message.
FailedToSend(c) ==
  \E i \in EventsOf(c, "error") : trace[c][i].data.message = "Failed to send message"

\* C31: message handling is all-or-nothing with respect to its error report:
\* when the handler of message:user or message:admin answers 'Failed to send
\* message', no message of that event has been persisted, also when the
\* update of the session's last activity inside createMessage fails after the
\* message row was created.
C31_ErrorMeansNotPersisted ==
  \A c \in Conns :
    (IsMessageHandler(c) /\ FailedToSend(c)) =>
      /\ InsertsOf(c, FALSE) = {}
      /\ \A i \in DOMAIN messages : messages[i] # h[c].message

\* Every handler has finished.
AllFinished == \A c \in Conns : h[c].pc = "done"

ReconnectSucceeds(c) ==
  /\ h[c].ev = "user:connect"
  /\ h[c].pc = "session.update"
  /\ ConnectSucceeded(c)'

\* C33: a successful user:connect with the id of an existing session leaves
\* the auto-reply flag of that session and the persisted messages unchanged,
\* and changes the row of no other session.
C33_ReconnectKeepsFlagAndLog ==
  [][\A c \in Conns :
       ReconnectSucceeds(c) =>
         /\ messages' = messages
         /\ Len(chat_sessions') = Len(chat_sessions)
         /\ \A i \in DOMAIN chat_sessions :
              /\ chat_sessions'[i].aiEnabled = chat_sessions[i].aiEnabled
              /\ chat_sessions[i].sessionId # h[c].sid =>
                   chat_sessions'[i] = chat_sessions[i]]_vars

\* user:connect has returned for an existing session whose auto-reply flag is
\* set.
C33_Witness ==
  \E c \in Users :
    /\ ConnectSucceeded(c)
    /\ h[c].session # NoRow
    /\ h[c].session.aiEnabled
    /\ FlagEnabled(h[c].sid)

\* C34: a user:connect with the id of an existing session and with neither
\* userIp nor userAgent leaves the stored network address and agent string
\* of the session unchanged.
C34_ReconnectKeepsOrigin ==
  [][\A c \in Conns :
       (/\ ReconnectSucceeds(c)
        /\ Falsy(h[c].in.userIp)
        /\ Falsy(h[c].in.userAgent))
         => \A i \in SessionRows(h[c].sid) :
              /\ chat_sessions'[i].userIp = chat_sessions[i].userIp
              /\ chat_sessions'[i].userAgent = chat_sessions[i].userAgent]_vars

\* The events the engine addresses to the room of a session.
ForSessionRoom(e) == e.ev \in {"message:received", "typing:admin", "typing:admin:stop"}

\* C35: delivery is confined to the addressed session: a message:received,
\* typing:admin or typing:admin:stop generated for session S is delivered
\* only to the connections that are in room session:S when it is emitted,
\* and never to a connection whose only session room is that of another
\* session.
C35_DeliveryConfined ==
  [][\A c \in Conns :
       \A i \in NewEvents(c) :
         ForSessionRoom(trace'[c][i]) =>
           /\ trace'[c][i].room = SessionRoom(h'[c].sid)
           /\ trace'[c][i].to \subseteq Members(SessionRoom(h'[c].sid))
           /\ \A d \in Conns :
                (SessionRoomsOf(d) # {} /\ SessionRoom(h'[c].sid) \notin rooms[d])
                  => d \notin trace'[c][i].to]_vars

\* A message:received for a session has been delivered to the customer in
\* its room, while another customer is in the room of another session only.
C35_Witness ==
  \E c \in Conns, d \in Users :
    /\ \E i \in EventsOf(c, "message:received") :
         /\ trace[c][i].to # {}
         /\ d \notin trace[c][i].to
    /\ SessionRoomsOf(d) # {}
    /\ SessionRoom(h[c].sid) \notin rooms[d]

\* The step is the failure of createOrUpdateSession in user:connect of c.
UpsertFails(c) ==
  /\ h[c].ev = "user:connect"
  /\ \/ FindOrCreateFind(c, FALSE)
     \/ FindOrCreateCreate(c, FALSE)
     \/ SessionUpdate(c, FALSE)

\* What the handler of c has emitted when the step is over: one 'error', to
\* its own socket, and no user:connected.
OneErrorNoAck(c) ==
  /\ Cardinality(EventsOf(c, "error")') = 1
  /\ \A i \in EventsOf(c, "error")' : trace'[c][i].to = {c}
  /\ EventsOf(c, "user:connected")' = {}
  /\ h'[c].pc = "done"

\* C36, as stated: when the session upsert of user:connect fails, the
\* connection is not added to the room of the session, receives no
\* user:connected and exactly one 'error', and a later broadcast to the room
\* is not delivered to it: it is not a member of the room.
C36_FailedConnectNotMember ==
  [][\A c \in Conns :
       UpsertFails(c) =>
         /\ OneErrorNoAck(c)
         /\ rooms' = rooms
         /\ SessionRoom(h[c].sid) \notin rooms'[c]]_vars

\* C36, amended: when the session upsert of user:connect fails, the
\* connection is added to no room, receives no user:connected and exactly
\* one 'error'; a later broadcast to the room of the session is delivered to
\* it only if it was a member of the room before, through an earlier
\* user:connect that succeeded.
C36_FailedConnectJoinsNothing ==
  [][\A c \in Conns :
       UpsertFails(c) =>
         /\ OneErrorNoAck(c)
         /\ rooms' = rooms
         /\ SessionRoom(h[c].sid) \in rooms'[c] <=> SessionRoom(h[c].sid) \in rooms[c]]_vars

\* A user:connect has failed for a session whose room holds another
\* connection: the socket has its 'error' and is not in the room.
C36_Witness ==
  \E c \in Users :
    /\ h[c].ev = "user:connect"
    /\ h[c].pc = "done"
    /\ EventsOf(c, "error") # {}
    /\ SessionRoom(h[c].sid) \notin rooms[c]
    /\ Members(SessionRoom(h[c].sid)) # {}

\* The step belongs to the handler of message:user or message:admin of c, its
\* AI reply included.
MessageStep(c) ==
  /\ h'[c] # h[c]
  /\ h'[c].ev \in {"message:user", "message:admin"}

\* The status column of the sessions table, row by row.
StatusColumn == [i \in DOMAIN chat_sessions |-> chat_sessions[i].status]

\* createMessage returns the message of the human author to the handler of c
\* while the session of the message is 'inactive'.
SavedForInactive(c) ==
  /\ IsMessageHandler(c)
  /\ h[c].stage = "human"
  /\ CreateMessageSucceeds(c)
  /\ FindOneSession(h[c].sid) # 0
  /\ StatusOf(h[c].sid) = "inactive"

\* C37: no step of the handling of message:user and message:admin, the AI
\* reply included, changes the status of any session or the membership of any
\* room; a message sent to a session whose status is 'inactive' is persisted
\* and broadcast, and the status is 'inactive' afterwards.
C37_MessagesKeepStatusAndRooms ==
  [][\A c \in Conns :
       /\ MessageStep(c) =>
            /\ rooms' = rooms
            /\ StatusColumn' = StatusColumn
       /\ SavedForInactive(c) =>
            /\ StatusOf(h[c].sid)' = "inactive"
            /\ \E i \in DOMAIN messages' : messages'[i] = h'[c].message
            /\ BroadcastsOf(c, FALSE)' # {}]_vars

\* The handler of c has persisted and broadcast a message for a session that
\* is 'inactive', and nothing else is in flight.
C37_Witness ==
  \E c \in Conns :
    /\ HumanMessageSaved(c)
    /\ h[c].pc = "done"
    /\ FindOneSession(h[c].sid) # 0
    /\ StatusOf(h[c].sid) = "inactive"
    /\ BroadcastsOf(c, FALSE) # {}
    /\ \E i \in DOMAIN messages : messages[i] = h[c].message
    /\ \A d \in Conns \ {c} : h[d] = NoHandler

====
